---- MODULE Spec2Model ----
(***************************************************************************)
(* Model of fix-supabase-imports.py: a script that walks a static table of *)
(* (path, auth type) tasks and rewrites each file in place.                *)
(*                                                                         *)
(* A file's text is modelled as the sequence of its lines, i.e. the text   *)
(* split on "\n" (content == "\n".join(lines)); a text ending in a newline *)
(* has the empty string as its last line and the empty text is <<"">>.     *)
(* Every line is one of the literal strings below, so each model file is a *)
(* concrete input of the script.  The regular expressions of the script    *)
(* are modelled by what they match on texts made of these lines.           *)
(***************************************************************************)
EXTENDS Naturals, Sequences, FiniteSets

(* ------------------------------------------------------------------ *)
(* Bounds of the model                                                 *)
(* ------------------------------------------------------------------ *)

\* number of "service" tasks at the head of files_to_fix (7 in the script)
NumService == 1
\* number of "user" tasks after them (13 in the script)
NumUser == 1
\* number of consecutive invocations of the script
MaxRuns == 2
\* number of lines after the import line in the enumerated single-file inputs
MaxBody == 5

(* ------------------------------------------------------------------ *)
(* The lines files are made of                                         *)
(* ------------------------------------------------------------------ *)

LegacyImport == "import { supabase } from '@/lib/supabase'"
UserImport == "import { createClient } from '@/utils/supabase/server'"
ServiceImport == "import { createServiceRoleClient } from '@/utils/supabase/service-role'"
UserTryInit == "    const supabase = await createClient()"
UserFuncInit == "  const supabase = await createClient()"
ServiceTryInit == "    const supabase = createServiceRoleClient()"
ServiceFuncInit == "  const supabase = createServiceRoleClient()"
OtherImport == "import { NextResponse } from 'next/server'"
ExportAsync == "export async function GET(request) {"
ExportSync == "export function GET(request) {"
TryOpen == "  try {"
TryClose == "  } catch (error) { return NextResponse.error() }"
Usage == "    const { data } = await supabase.from('items').select()"
FuncClose == "}"
Blank == ""

InitLines == {UserTryInit, UserFuncInit, ServiceTryInit, ServiceFuncInit}

(* ------------------------------------------------------------------ *)
(* What the script's string tests and regular expressions see in a line *)
(* ------------------------------------------------------------------ *)

\* the line consists of whitespace only (matched whole by \s*)
IsSpace(line) == line = Blank

\* the line begins with a whitespace character
StartsWithSpace(line) == line \in {TryOpen, TryClose, Usage} \cup InitLines

\* r'(.*?)(await )?supabase\.' matches somewhere in the line
HasUsage(line) == line = Usage

\* 'export async function' in line or 'export function' in line
HasExport(line) == line \in {ExportAsync, ExportSync}

\* the whole line matches r'\s+try \{'
IsTryLine(line) == line = TryOpen

\* the line ends with a match of r'export async function \w+\([^)]*\) \{'
IsAsyncFuncLine(line) == line = ExportAsync

Min(S) == CHOOSE x \in S : \A y \in S : x <= y
Max(S) == CHOOSE x \in S : \A y \in S : x >= y

\* substring in content, for a substring that lies within one line
Contains(content, line) == \E i \in 1..Len(content) : content[i] = line

\* mutant: only the first occurrence is replaced (count=1)
replace_first(content, old, new) ==
    [i \in 1..Len(content) |->
        IF content[i] = old /\ \A k \in 1..(i - 1) : content[k] # old
        THEN new ELSE content[i]]

\* mutant: the result of str.replace is dropped (strings are immutable)
replace_dropped(content, old, new) == content

\* content.replace(old, new): every occurrence is replaced
replace(content, old, new) ==
    [i \in 1..Len(content) |-> IF content[i] = old THEN new ELSE content[i]]

\* the text with one line added after line t (re.sub's r'\1<line>\n')
InsertAfter(content, t, line) ==
    SubSeq(content, 1, t) \o <<line>> \o SubSeq(content, t + 1, Len(content))

\* mutant: the guard looks for any use of the client, not for the import
needs_fixing_usage(content) ==
    \E i \in 1..Len(content) : content[i] = LegacyImport \/ HasUsage(content[i])

\* "import { supabase } from '@/lib/supabase'" in content
needs_fixing(content) == Contains(content, LegacyImport)

\* re.search(r'(\n\s+)(.*?)(await )?supabase\.', content): the candidates
\* for match.start(), given as the number j of the line whose closing "\n"
\* starts the match.  \s+ runs over whitespace-only lines and the
\* indentation of the line holding the usage; (.*?) stays within that line.
UsageMatchStarts(content) ==
    { j \in 1..(Len(content) - 1) :
        \E i \in (j + 1)..Len(content) :
            /\ HasUsage(content[i])
            /\ \A k \in (j + 1)..(i - 1) : IsSpace(content[k])
            /\ StartsWithSpace(content[i]) \/ i > j + 1 }

\* re.search returns the leftmost match; 0 stands for None
first_usage_pattern(content) ==
    IF UsageMatchStarts(content) = {} THEN 0 ELSE Min(UsageMatchStarts(content))

\* the line of the usage the leftmost match ends in; 0 when there is none
FirstUsageLine(content) ==
    LET j == first_usage_pattern(content)
    IN  IF j = 0 THEN 0
        ELSE Min({ i \in (j + 1)..Len(content) :
                      /\ HasUsage(content[i])
                      /\ \A k \in (j + 1)..(i - 1) : IsSpace(content[k]) })

\* the backward loop over content[:match.start()].split('\n'): the index of
\* the nearest line holding an exported function declaration, 0 if none
enclosing_function(content, j) ==
    LET found == { i \in 1..j : HasExport(content[i]) }
    IN  IF found = {} THEN 0 ELSE Max(found)

\* the lines re.sub(r'(\n\s+try \{\n)', ..., count=1) can match at: a try
\* line with a "\n" before it and a "\n" after it
TryMatches(content) ==
    { t \in 2..(Len(content) - 1) : IsTryLine(content[t]) }

RECURSIVE InsertAfterAll(_, _, _)
InsertAfterAll(content, S, line) ==
    IF S = {} THEN content
    ELSE InsertAfterAll(InsertAfter(content, Max(S), line), S \ {Max(S)}, line)

\* mutant: count=1 left out, every try line gets the creation line
sub_try_all(content, init) ==
    InsertAfterAll(content, { t \in 2..(Len(content) - 1) : IsTryLine(content[t]) }, init)

\* re.sub(r'(\n\s+try \{\n)', r'\1<init>\n', content, count=1)
sub_try(content, init) ==
    IF TryMatches(content) = {} THEN content
    ELSE InsertAfter(content, Min(TryMatches(content)), init)

\* the lines func_pattern can match at: an async function line with "\n" after
FuncMatches(content) ==
    { a \in 1..(Len(content) - 1) : IsAsyncFuncLine(content[a]) }

\* re.sub(func_pattern, r'\1<init>\n', content, count=1)
sub_func(content, init) ==
    IF FuncMatches(content) = {} THEN content
    ELSE InsertAfter(content, Min(FuncMatches(content)), init)

\* the body of `if match:` : look backwards for a function and insert the
\* client creation once
add_client(content, try_init, func_init) ==
    LET j == first_usage_pattern(content)
    IN  IF j = 0 THEN content
        ELSE IF enclosing_function(content, j) = 0 THEN content
        ELSE IF Contains(content, TryOpen) THEN sub_try(content, try_init)
        ELSE sub_func(content, func_init)

\* the branch auth_type == 'user'
fix_user(content) ==
    add_client(replace(content, LegacyImport, UserImport), UserTryInit, UserFuncInit)

\* mutant: the service branch pasted from the user branch, creation lines
\* not adapted
fix_service_pasted(content) ==
    add_client(replace(content, LegacyImport, ServiceImport),
               UserTryInit, UserFuncInit)

\* the branch auth_type == 'service'
fix_service(content) ==
    add_client(replace(content, LegacyImport, ServiceImport),
               ServiceTryInit, ServiceFuncInit)

\* the text fix_file computes from original_content
rewrite(content, auth_type) ==
    IF auth_type = "user" THEN fix_user(content)
    ELSE IF auth_type = "service" THEN fix_service(content)
    ELSE content

(* ------------------------------------------------------------------ *)
(* Files                                                               *)
(* ------------------------------------------------------------------ *)

\* perm: "rw" readable and writable, "ro" readable only, "none" neither
File(content, perm) == [exists |-> TRUE, perm |-> perm, content |-> content]
Missing == [exists |-> FALSE, perm |-> "none", content |-> <<Blank>>]

\* mutant: the existence test always passes
os_path_exists_always(file) == TRUE

\* os.path.exists(filepath)
os_path_exists(file) == file.exists

\* open(filepath, 'r') succeeds
CanRead(file) == file.exists /\ file.perm \in {"rw", "ro"}

\* open(filepath, 'w') succeeds
CanWrite(file) == file.exists /\ file.perm = "rw"

\* fix_file(filepath, auth_type): its outcome, the file it leaves on disk,
\* and whether an exception left the function
fix_file(file, auth_type) ==
    IF ~os_path_exists(file)
    THEN [out |-> "notfound", ret |-> FALSE, raised |-> FALSE, file |-> file]
    ELSE IF ~CanRead(file)
    THEN [out |-> "raised", ret |-> FALSE, raised |-> TRUE, file |-> file]
    ELSE IF ~needs_fixing(file.content)
    THEN [out |-> "already", ret |-> TRUE, raised |-> FALSE, file |-> file]
    ELSE LET content == rewrite(file.content, auth_type)
         IN  IF content # file.content
             THEN IF CanWrite(file)
                  THEN [out |-> "fixed", ret |-> TRUE, raised |-> FALSE,
                        file |-> [file EXCEPT !.content = content]]
                  ELSE [out |-> "raised", ret |-> FALSE, raised |-> TRUE,
                        file |-> file]
             ELSE [out |-> "couldnot", ret |-> FALSE, raised |-> FALSE,
                   file |-> file]

(* ------------------------------------------------------------------ *)
(* Inputs                                                              *)
(* ------------------------------------------------------------------ *)

RouteWithTry ==
    <<OtherImport, LegacyImport, Blank, ExportAsync, TryOpen, Usage, TryClose,
      FuncClose, Blank>>
RouteNoTry == <<LegacyImport, ExportAsync, Usage, FuncClose, Blank>>
RouteSync == <<LegacyImport, ExportSync, Usage, FuncClose, Blank>>
ImportOnly == <<LegacyImport, Blank>>
Migrated ==
    <<UserImport, ExportAsync, TryOpen, UserTryInit, Usage, TryClose, FuncClose,
      Blank>>
PartlyMigrated ==
    <<UserImport, LegacyImport, ExportAsync, TryOpen, Usage, TryClose, FuncClose,
      Blank>>

SampleFiles ==
    { Missing, File(RouteWithTry, "none"), File(RouteWithTry, "ro") } \cup
    { File(c, "rw") : c \in {RouteWithTry, RouteNoTry, RouteSync, ImportOnly,
                             Migrated, PartlyMigrated} }

BodyLines == {LegacyImport, ExportAsync, ExportSync, TryOpen, TryClose, Usage}

\* the legacy import on the first line, then up to MaxBody lines
Bodies == UNION { [1..n -> BodyLines] : n \in 0..MaxBody }
EnumeratedFiles == { File(<<LegacyImport>> \o b, "rw") : b \in Bodies }

(* ------------------------------------------------------------------ *)
(* State                                                               *)
(* ------------------------------------------------------------------ *)

VARIABLES
    files_to_fix,   \* the task table: auth type of task p, in iteration order
    fs,             \* the file at the path of task p
    fs0,            \* fs when the current run started
    run,            \* number of the current invocation of the script
    pc,             \* "loop", "done" (summary printed), "crashed" (traceback)
    idx,            \* position of the for loop in files_to_fix
    fixed_count,
    failed_count,
    status,         \* status line printed for task p in the current run
    prev_status,    \* status of the previous run
    writes,         \* number of times the file of task p was written, all runs
    inserted        \* number of creation lines the file of task p gained

vars == <<files_to_fix, fs, fs0, run, pc, idx, fixed_count, failed_count,
          status, prev_status, writes, inserted>>

Tasks == 1..Len(files_to_fix)

CountLines(content, S) == Cardinality({ i \in 1..Len(content) : content[i] \in S })

Start ==
    /\ fs0 = fs
    /\ run = 1
    /\ pc = "loop"
    /\ idx = 1
    /\ fixed_count = 0
    /\ failed_count = 0
    /\ status = [p \in Tasks |-> "pending"]
    /\ prev_status = [p \in Tasks |-> "pending"]
    /\ writes = [p \in Tasks |-> 0]
    /\ inserted = [p \in Tasks |-> 0]

\* the script as written: service tasks first, then user tasks
Init ==
    /\ files_to_fix = [p \in 1..(NumService + NumUser) |->
                          IF p <= NumService THEN "service" ELSE "user"]
    /\ fs \in [1..(NumService + NumUser) -> SampleFiles]
    /\ Start

\* fix_file applied to one file
InitFile ==
    /\ files_to_fix \in {<<"service">>, <<"user">>}
    /\ fs \in [1..1 -> SampleFiles \cup EnumeratedFiles]
    /\ Start

\* one iteration of the for loop in which fix_file returns
LoopIteration ==
    /\ pc = "loop"
    /\ idx <= Len(files_to_fix)
    /\ LET r == fix_file(fs[idx], files_to_fix[idx])
       IN  /\ ~r.raised
           /\ fs' = [fs EXCEPT ![idx] = r.file]
           /\ fixed_count' = IF r.ret THEN fixed_count + 1 ELSE fixed_count
           /\ failed_count' = IF r.ret THEN failed_count ELSE failed_count + 1
           /\ status' = [status EXCEPT ![idx] = r.out]
           /\ writes' = [writes EXCEPT ![idx] = IF r.out = "fixed" THEN @ + 1 ELSE @]
           /\ inserted' = [inserted EXCEPT ![idx] =
                              @ + CountLines(r.file.content, InitLines)
                                - CountLines(fs[idx].content, InitLines)]
    /\ idx' = idx + 1
    /\ UNCHANGED <<files_to_fix, fs0, run, pc, prev_status>>

\* an iteration in which open() raises: nothing catches it, the script ends
UnhandledError ==
    /\ pc = "loop"
    /\ idx <= Len(files_to_fix)
    /\ fix_file(fs[idx], files_to_fix[idx]).raised
    /\ pc' = "crashed"
    /\ status' = [status EXCEPT ![idx] = "raised"]
    /\ UNCHANGED <<files_to_fix, fs, fs0, run, idx, fixed_count, failed_count,
                   prev_status, writes, inserted>>

\* the loop is over: the summary is printed
PrintSummary ==
    /\ pc = "loop"
    /\ idx > Len(files_to_fix)
    /\ pc' = "done"
    /\ UNCHANGED <<files_to_fix, fs, fs0, run, idx, fixed_count, failed_count,
                   status, prev_status, writes, inserted>>

\* the script is invoked again on the files the last run left
Rerun ==
    /\ pc \in {"done", "crashed"}
    /\ run < MaxRuns
    /\ run' = run + 1
    /\ pc' = "loop"
    /\ idx' = 1
    /\ fixed_count' = 0
    /\ failed_count' = 0
    /\ fs0' = fs
    /\ prev_status' = status
    /\ status' = [p \in Tasks |-> "pending"]
    /\ UNCHANGED <<files_to_fix, fs, writes, inserted>>

Next == LoopIteration \/ UnhandledError \/ PrintSummary \/ Rerun

Spec == Init /\ [][Next]_vars

SpecFile == InitFile /\ [][Next]_vars

(* ------------------------------------------------------------------ *)
(* Vocabulary of the properties                                        *)
(* ------------------------------------------------------------------ *)

ImportOf(auth_type) == IF auth_type = "user" THEN UserImport ELSE ServiceImport
TryInitOf(auth_type) == IF auth_type = "user" THEN UserTryInit ELSE ServiceTryInit
FuncInitOf(auth_type) == IF auth_type = "user" THEN UserFuncInit ELSE ServiceFuncInit
InitsOf(auth_type) == {TryInitOf(auth_type), FuncInitOf(auth_type)}
OtherMode(auth_type) == IF auth_type = "user" THEN "service" ELSE "user"

\* the file of task p was read by fix_file in the current run
Handled(p) == status[p] \in {"already", "fixed", "couldnot"}

\* the first line of the text that uses the client; 0 if none
FirstUse(content) ==
    LET U == { i \in 1..Len(content) : HasUsage(content[i]) }
    IN  IF U = {} THEN 0 ELSE Min(U)

\* a recognizable usage follows a legacy import line
UsageFollowsImport(content) ==
    \E i \in 1..Len(content) :
        content[i] = LegacyImport /\ FirstUsageLine(content) > i

\* the nearest exported function declaration above line u; 0 if none
FunctionAbove(content, u) ==
    LET F == { k \in 1..(u - 1) : HasExport(content[k]) }
    IN  IF F = {} THEN 0 ELSE Max(F)

\* the try lines whose block is still open at line u: after such a line the
\* closings never outnumber the openings
OpenTries(content, u) ==
    { t \in 1..(u - 1) :
        /\ content[t] = TryOpen
        /\ \A m \in (t + 1)..(u - 1) :
              CountLines(SubSeq(content, t + 1, m), {TryClose})
                 <= CountLines(SubSeq(content, t + 1, m), {TryOpen}) }

\* the try blocks around line u that lie in the function enclosing line u
TriesInFunction(content, u) ==
    { t \in OpenTries(content, u) :
        FunctionAbove(content, u) # 0 /\ FunctionAbove(content, u) < t }

\* the blocks of the text nest as in a source file: every try line lies in
\* an exported function and every function is declared outside any try block
WellNested(content) ==
    \A i \in 1..Len(content) :
        /\ content[i] = TryOpen => FunctionAbove(content, i) # 0
        /\ HasExport(content[i]) => OpenTries(content, i) = {}

(* ------------------------------------------------------------------ *)
(* C1                                                                  *)
(* ------------------------------------------------------------------ *)

\* C1: when fix_file handles a file that exists, can be read and does not
\* hold the legacy import line, the step leaves every file as it was,
\* reports "already fixed" and adds one to fixed_count and nothing to
\* failed_count, whatever the auth type and whatever else the file holds.
C1_AbsentImportUntouched ==
    [][ (/\ pc = "loop"
         /\ idx \in Tasks
         /\ fs[idx].exists
         /\ fs[idx].perm # "none"
         /\ ~Contains(fs[idx].content, LegacyImport))
        => (/\ fs' = fs
            /\ status'[idx] = "already"
            /\ fixed_count' = fixed_count + 1
            /\ failed_count' = failed_count) ]_vars

C1_Witness ==
    \E p \in Tasks :
        /\ run = 1
        /\ status[p] = "already"
        /\ fs[p] = fs0[p]
        /\ Contains(fs[p].content, Usage)
        /\ Contains(fs[p].content, TryOpen)
        /\ Contains(fs[p].content, ExportAsync)
        /\ fixed_count >= 1

(* ------------------------------------------------------------------ *)
(* C2                                                                  *)
(* ------------------------------------------------------------------ *)

\* C2 as stated: a rewritten file that held the legacy import followed by a
\* recognizable usage holds no legacy import and holds the replacement
\* import of its auth type exactly once.
C2_ExactlyOneImport ==
    \A p \in Tasks :
        (/\ status[p] = "fixed"
         /\ Contains(fs0[p].content, LegacyImport)
         /\ UsageFollowsImport(fs0[p].content))
        => /\ ~Contains(fs[p].content, LegacyImport)
           /\ CountLines(fs[p].content, {ImportOf(files_to_fix[p])}) = 1

\* C2 amended: such a file holds no legacy import, and holds the replacement
\* import of its auth type once for every legacy import and every
\* replacement import it held before; so exactly once when it held the
\* legacy import once and the replacement import not at all.
C2_ImportsReplaced ==
    \A p \in Tasks :
        (/\ status[p] = "fixed"
         /\ Contains(fs0[p].content, LegacyImport)
         /\ UsageFollowsImport(fs0[p].content))
        => /\ ~Contains(fs[p].content, LegacyImport)
           /\ CountLines(fs[p].content, {ImportOf(files_to_fix[p])})
                = CountLines(fs0[p].content,
                             {LegacyImport, ImportOf(files_to_fix[p])})

C2_Witness ==
    \E p \in Tasks :
        /\ status[p] = "fixed"
        /\ CountLines(fs0[p].content, {LegacyImport}) = 1
        /\ UsageFollowsImport(fs0[p].content)
        /\ ~Contains(fs[p].content, LegacyImport)
        /\ CountLines(fs[p].content, {ImportOf(files_to_fix[p])}) = 1

(* ------------------------------------------------------------------ *)
(* C3                                                                  *)
(* ------------------------------------------------------------------ *)

\* C3 as stated: when a rewritten file with well nested blocks held the
\* legacy import and its first usage lies in a try block inside an exported
\* function, the file on disk
\* is the text with the import replaced and exactly one creation line of
\* the auth type added, directly after the opening line of a try block
\* that contains the usage.
C3_InitInEnclosingTry ==
    \A p \in Tasks :
        LET c0 == fs0[p].content
            u == FirstUse(c0)
            m == files_to_fix[p]
        IN  (/\ status[p] = "fixed"
             /\ Contains(c0, LegacyImport)
             /\ WellNested(c0)
             /\ u # 0
             /\ TriesInFunction(c0, u) # {})
            => \E t \in TriesInFunction(c0, u) :
                  fs[p].content =
                      InsertAfter(replace(c0, LegacyImport, ImportOf(m)), t,
                                  TryInitOf(m))

(* ------------------------------------------------------------------ *)
(* C4                                                                  *)
(* ------------------------------------------------------------------ *)

\* C4: the task table never changes, and every step that changes a file
\* writes only what the auth type of its task prescribes: the replacement
\* import of that type once per legacy import, at most one creation line
\* and that of the same type, and no import or creation line of the other
\* type.
C4_ModeDeterminesText ==
    [][ /\ files_to_fix' = files_to_fix
        /\ \A p \in Tasks :
              LET m == files_to_fix[p]
                  old == fs[p].content
                  new == fs'[p].content
              IN  fs'[p] # fs[p] =>
                    /\ CountLines(new, {ImportOf(m)})
                         = CountLines(old, {ImportOf(m), LegacyImport})
                    /\ CountLines(new, {ImportOf(OtherMode(m))})
                         = CountLines(old, {ImportOf(OtherMode(m))})
                    /\ CountLines(new, InitsOf(OtherMode(m)))
                         = CountLines(old, InitsOf(OtherMode(m)))
                    /\ CountLines(new, InitsOf(m)) - CountLines(old, InitsOf(m))
                         \in {0, 1} ]_vars

C4_Witness ==
    \E p \in Tasks :
        /\ files_to_fix[p] = "service"
        /\ status[p] = "fixed"
        /\ Contains(fs0[p].content, LegacyImport)
        /\ Contains(fs[p].content, ServiceImport)
        /\ CountLines(fs[p].content, InitsOf("service"))
             = CountLines(fs0[p].content, InitsOf("service")) + 1
        /\ CountLines(fs[p].content, InitsOf("user")) = 0

(* ------------------------------------------------------------------ *)
(* C5                                                                  *)
(* ------------------------------------------------------------------ *)

\* C5: in a run after the first, every file the previous run reported as
\* fixed or already fixed is reported as already fixed and is left as the
\* previous run left it, so it holds as many replacement imports as before.
C5_SecondRunAlreadyFixed ==
    \A p \in Tasks :
        (/\ run >= 2
         /\ prev_status[p] \in {"fixed", "already"}
         /\ status[p] # "pending")
        => /\ status[p] = "already"
           /\ fs[p] = fs0[p]
           /\ CountLines(fs[p].content, {ImportOf(files_to_fix[p])})
                = CountLines(fs0[p].content, {ImportOf(files_to_fix[p])})

C5_Witness ==
    \E p \in Tasks :
        /\ run = 2
        /\ pc = "done"
        /\ prev_status[p] = "fixed"
        /\ status[p] = "already"
        /\ Contains(fs[p].content, ImportOf(files_to_fix[p]))

(* ------------------------------------------------------------------ *)
(* C6                                                                  *)
(* ------------------------------------------------------------------ *)

\* C6: when the loop reaches a task whose path is not on disk, the step
\* reports "file not found", raises nothing, leaves every file as it was
\* (none is created), adds exactly one to failed_count and nothing to
\* fixed_count, and the loop goes on to the next task.
C6_MissingFileCounted ==
    [][ (/\ pc = "loop"
         /\ idx \in Tasks
         /\ ~fs[idx].exists)
        => (/\ fs' = fs
            /\ status'[idx] = "notfound"
            /\ failed_count' = failed_count + 1
            /\ fixed_count' = fixed_count
            /\ pc' = "loop"
            /\ idx' = idx + 1) ]_vars

C6_Witness ==
    \E p \in Tasks :
        /\ p < Len(files_to_fix)
        /\ status[p] = "notfound"
        /\ ~fs[p].exists
        /\ failed_count >= 1
        /\ status[p + 1] \in {"already", "fixed", "notfound"}

(* ------------------------------------------------------------------ *)
(* C7                                                                  *)
(* ------------------------------------------------------------------ *)

\* C7 as stated: a handled file that held the legacy import and in which no
\* usage was matched, or which gained no creation line, is reported as
\* "could not automatically fix", which counts it as failed.
C7_NoInsertionIsFailure ==
    \A p \in Tasks :
        (/\ Handled(p)
         /\ Contains(fs0[p].content, LegacyImport)
         /\ \/ first_usage_pattern(fs0[p].content) = 0
            \/ CountLines(fs[p].content, InitLines)
                 = CountLines(fs0[p].content, InitLines))
        => status[p] = "couldnot"

(* ------------------------------------------------------------------ *)
(* C8                                                                  *)
(* ------------------------------------------------------------------ *)

\* C8 as stated: no error leaves the handling of a file and ends the run,
\* and when the summary is printed every task has a status and
\* fixed_count + failed_count is the number of tasks.
C8_RunNeverAborts ==
    /\ pc # "crashed"
    /\ pc = "done" =>
          /\ \A p \in Tasks : status[p] # "pending"
          /\ fixed_count + failed_count = Len(files_to_fix)

(* ------------------------------------------------------------------ *)
(* C9                                                                  *)
(* ------------------------------------------------------------------ *)

\* C9 as stated: when a rewritten file held the legacy import, a usage was
\* matched, the backward scan found an exported function and the file has
\* no try line, the file on disk is the text with the import replaced and
\* the creation line added directly after the line of that function.
C9_InitInEnclosingFunction ==
    \A p \in Tasks :
        LET c0 == fs0[p].content
            j == first_usage_pattern(c0)
            m == files_to_fix[p]
        IN  (/\ status[p] = "fixed"
             /\ Contains(c0, LegacyImport)
             /\ j # 0
             /\ enclosing_function(c0, j) # 0
             /\ ~Contains(c0, TryOpen))
            => fs[p].content =
                  InsertAfter(replace(c0, LegacyImport, ImportOf(m)),
                              enclosing_function(c0, j), FuncInitOf(m))

(* ------------------------------------------------------------------ *)
(* C10                                                                 *)
(* ------------------------------------------------------------------ *)

\* C10: over all runs a file is written at most once and gains at most one
\* creation line; a run adds a creation line only to a file that held the
\* legacy import when the run started, and a file that has been written
\* holds no legacy import.
C10_AtMostOneInsertion ==
    \A p \in Tasks :
        /\ writes[p] <= 1
        /\ inserted[p] <= 1
        /\ writes[p] >= 1 => ~Contains(fs[p].content, LegacyImport)
        /\ CountLines(fs[p].content, InitLines)
             > CountLines(fs0[p].content, InitLines)
           => Contains(fs0[p].content, LegacyImport)

C10_Witness ==
    \E p \in Tasks :
        /\ run = MaxRuns
        /\ run >= 2
        /\ pc = "done"
        /\ status[p] = "already"
        /\ prev_status[p] \in {"fixed", "already"}
        /\ writes[p] = 1
        /\ inserted[p] = 1
        /\ CountLines(fs[p].content, {TryOpen}) >= 2

====
